---- MODULE Spec2Model ----
(***************************************************************************)
(* Steel Optimizer (streamlit_app.py): the cutting-stock packing           *)
(* (best_fit_decreasing / optimise_cuts) and the per-material routing      *)
(* (process_group and the "Process BOM" handler).                          *)
(***************************************************************************)
EXTENDS Integers, Sequences, FiniteSets, TLC

(* ---------------- bounds of the packing model ---------------- *)
MaxCuts == 4
MaxCut == 5
MaxBar == 7

(* ---------------- bounds of the processing model ---------------- *)
MaxRows == 2

(* ---------------- state ---------------- *)
\* one call of optimise_cuts: its arguments, its position, its result
VARIABLES in_cuts, in_length, pack_pc, pack_result

\* the app: the module-level table, the uploaded BOM,
\* and what one press of "Process BOM" leaves behind
VARIABLES STANDARD_LENGTHS, uploaded_df, pc,
          df_proc, overrides, procure_mode, buy_rows_all, check_rows_all,
          warnings, st_error

packVars == <<in_cuts, in_length, pack_pc, pack_result>>
appVars == <<STANDARD_LENGTHS, uploaded_df, pc,
             df_proc, overrides, procure_mode, buy_rows_all, check_rows_all,
             warnings, st_error>>
vars == <<packVars, appVars>>

(* ---------------- Python values ---------------- *)
\* None, int and str values are tagged so that mixed-type fields
\* (a length that is an int or None, a cell that is a number or text)
\* can be told apart.
PyNone == [kind |-> "None"]
PyInt(n) == [kind |-> "int", val |-> n]
PyStr(s) == [kind |-> "str", val |-> s]
IsNone(v) == v.kind = "None"
IsInt(v) == v.kind = "int"
IsStr(v) == v.kind = "str"

(* ---------------- str methods ---------------- *)
\* Strings are ASCII here; three characters of the source stand as
\*   "@" for U+2300 (the diameter sign), "#" for U+00D8, "$" for U+00F8.
Char(s, i) == SubSeq(s, i, i)
Rest(s) == SubSeq(s, 2, Len(s))
LowerChars == "abcdefghijklmnopqrstuvwxyz$"
UpperChars == "ABCDEFGHIJKLMNOPQRSTUVWXYZ#"
UpperMap ==
    [c \in {Char(LowerChars, i) : i \in 1..Len(LowerChars)} |->
        Char(UpperChars, CHOOSE i \in 1..Len(LowerChars) : Char(LowerChars, i) = c)]
UpperChar(c) == IF c \in DOMAIN UpperMap THEN UpperMap[c] ELSE c

RECURSIVE str_upper(_)
str_upper(s) == IF s = "" THEN "" ELSE UpperChar(Char(s, 1)) \o str_upper(Rest(s))

\* s.replace(old, new) for a one-character old
RECURSIVE str_replace(_, _, _)
str_replace(s, old, new) ==
    IF s = "" THEN ""
    ELSE (IF Char(s, 1) = old THEN new ELSE Char(s, 1)) \o str_replace(Rest(s), old, new)

RECURSIVE str_lstrip(_)
str_lstrip(s) == IF s # "" /\ Char(s, 1) = " " THEN str_lstrip(Rest(s)) ELSE s

RECURSIVE str_rstrip(_)
str_rstrip(s) ==
    IF s # "" /\ Char(s, Len(s)) = " " THEN str_rstrip(SubSeq(s, 1, Len(s) - 1)) ELSE s

str_strip(s) == str_lstrip(str_rstrip(s))

\* "sub in s"
str_contains(s, sub) ==
    \E i \in 1..(Len(s) - Len(sub) + 1) : SubSeq(s, i, i + Len(sub) - 1) = sub

\* code-point order of the characters the model uses
CodeOrder == " ()-./0123456789ABCDEFGHIJKLMNOPQRSTUVWXYZabcdefghijklmnopqrstuvwxyz#$@"
OrdMap ==
    [c \in {Char(CodeOrder, i) : i \in 1..Len(CodeOrder)} |->
        CHOOSE i \in 1..Len(CodeOrder) : Char(CodeOrder, i) = c]
Ord(c) == OrdMap[c]

RECURSIVE str_less(_, _)
str_less(a, b) ==
    IF b = "" THEN FALSE
    ELSE IF a = "" THEN TRUE
    ELSE IF Char(a, 1) = Char(b, 1) THEN str_less(Rest(a), Rest(b))
    ELSE Ord(Char(a, 1)) < Ord(Char(b, 1))

\* int(text) / int(float(text)) of a text: decimal digits (surrounding
\* blanks allowed) give the number, every other text of the model raises
Digits == "0123456789"
DigitMap ==
    [c \in {Char(Digits, i) : i \in 1..10} |->
        (CHOOSE i \in 1..10 : Char(Digits, i) = c) - 1]
IsDigit(c) == c \in DOMAIN DigitMap
DigitVal(c) == DigitMap[c]
IsNumeral(s) == s # "" /\ \A i \in 1..Len(s) : IsDigit(Char(s, i))

RECURSIVE NumeralVal(_, _)
NumeralVal(s, acc) ==
    IF s = "" THEN acc ELSE NumeralVal(Rest(s), 10 * acc + DigitVal(Char(s, 1)))

ParsesAsInt(s) == IsNumeral(str_strip(s))
ParseInt(s) == NumeralVal(str_strip(s), 0)

\* str(v) of an int, a str or None
py_str(v) ==
    IF IsInt(v) THEN ToString(v.val)
    ELSE IF IsNone(v) THEN "None"
    ELSE v.val

\* str() of a list of ints and of a list of lists of ints
RECURSIVE JoinInts(_)
JoinInts(s) ==
    IF s = <<>> THEN ""
    ELSE IF Len(s) = 1 THEN ToString(s[1])
    ELSE ToString(s[1]) \o ", " \o JoinInts(Tail(s))

list_str(s) == "[" \o JoinInts(s) \o "]"

RECURSIVE JoinLists(_)
JoinLists(ss) ==
    IF ss = <<>> THEN ""
    ELSE IF Len(ss) = 1 THEN list_str(ss[1])
    ELSE list_str(ss[1]) \o ", " \o JoinLists(Tail(ss))

patterns_str(ss) == "[" \o JoinLists(ss) \o "]"

\* the float round(num / den, digits), kept as its exact operands: which
\* way a binary quotient that sits on a decimal tie rounds is not decided
\* here, and nothing below reads the rounded digits
PyRound(num, den, digits) ==
    [kind |-> "round", num |-> num, den |-> den, digits |-> digits]

(* ---------------- configuration ---------------- *)
\* WASTE_FACTOR = 1.03, as hundredths
WASTE_FACTOR_X100 == 103

RAW_STANDARD_LENGTHS ==
    ("50X50X3SHS" :> PyInt(8000)) @@ ("100X50X3RHS" :> PyInt(7000)) @@
    ("125PFC" :> PyInt(12000)) @@ ("75X50X3RHS" :> PyInt(8000)) @@
    ("150PFC" :> PyInt(12000)) @@ ("150X50X5RHS" :> PyInt(8000)) @@
    ("40X40X2.5SHS" :> PyInt(8000)) @@ ("40X40X3SHS" :> PyInt(8000)) @@
    ("150X50X3RHS" :> PyInt(8000)) @@ ("65X35X2.5RHS" :> PyInt(8000)) @@
    ("75X75X6EA" :> PyInt(9000)) @@ ("50X50X5EA" :> PyInt(9000)) @@
    ("50X50X3EA" :> PyInt(9000)) @@ ("25X25X3EA" :> PyInt(9000)) @@
    ("40X40X5EA" :> PyInt(7500)) @@ ("25X25X2SHS" :> PyInt(6500)) @@
    ("25X25X2.5SHS" :> PyInt(6500)) @@ ("@6BAR" :> PyInt(6000)) @@
    ("@12BAR" :> PyInt(6000)) @@ ("40X5FL(MS)" :> PyInt(6000)) @@
    ("40X3FL(MS)" :> PyInt(6000)) @@ ("200PFC" :> PyNone)

RAW_STOCK_LIST ==
    <<"100X50X3RHS", "75X50X3RHS", "40X40X2.5RHS", "65X35X2.5RHS",
      "40X40X5EA", "@6BAR", "@12BAR">>

STOCK_LIST == [i \in 1..Len(RAW_STOCK_LIST) |-> str_upper(RAW_STOCK_LIST[i])]

\* the module-level STANDARD_LENGTHS as first built
STANDARD_LENGTHS_0 ==
    LET raw == DOMAIN RAW_STANDARD_LENGTHS
    IN  [k \in {str_upper(r) : r \in raw} |->
            RAW_STANDARD_LENGTHS[CHOOSE r \in raw : str_upper(r) = k]]

InStockList(k) == \E i \in 1..Len(STOCK_LIST) : STOCK_LIST[i] = k

\* d.get(k) of a dict
dict_get(d, k) == IF k \in DOMAIN d THEN d[k] ELSE PyNone

normalise(text) ==
    IF ~IsStr(text) THEN ""
    ELSE LET t1 == str_replace(str_replace(str_replace(
                       str_upper(text.val), " ", ""), "-", ""), "/", "")
             t2 == str_replace(str_replace(str_replace(
                       t1, "X", "X"), "#", "@"), "#", "@")
         IN  t2

RECURSIVE Sum(_)
Sum(s) == IF s = <<>> THEN 0 ELSE Head(s) + Sum(Tail(s))

(* ---------------- sorted(cuts, reverse=True) ---------------- *)
RECURSIVE InsertDesc(_, _)
InsertDesc(x, s) ==
    IF s = <<>> THEN <<x>>
    ELSE IF x > Head(s) THEN <<x>> \o s
    ELSE <<Head(s)>> \o InsertDesc(x, Tail(s))

RECURSIVE sorted_reverse(_)
sorted_reverse(s) ==
    IF s = <<>> THEN <<>>
    ELSE InsertDesc(s[Len(s)], sorted_reverse(SubSeq(s, 1, Len(s) - 1)))

(* ---------------- best_fit_decreasing ---------------- *)
\* the inner "for bar in bars" scan from bar i on: the index of the first
\* bar with bar_length - sum(bar) >= cut, 0 when the scan ends unplaced
RECURSIVE ScanBars(_, _, _, _)
ScanBars(bars, cut, bar_length, i) ==
    IF i > Len(bars) THEN 0
    ELSE LET remaining == bar_length - Sum(bars[i])
         IN  IF remaining >= cut THEN i
             ELSE ScanBars(bars, cut, bar_length, i + 1)

\* faulty variant: strict comparison, an exact fit is refused
RECURSIVE ScanBarsStrict(_, _, _, _)
ScanBarsStrict(bars, cut, bar_length, i) ==
    IF i > Len(bars) THEN 0
    ELSE LET remaining == bar_length - Sum(bars[i])
         IN  IF remaining > cut THEN i
             ELSE ScanBarsStrict(bars, cut, bar_length, i + 1)

\* faulty variant: true best fit, the fitting bar with the least remaining
\* capacity
BestFitBar(bars, cut, bar_length) ==
    LET fits == {i \in 1..Len(bars) : bar_length - Sum(bars[i]) >= cut}
    IN  IF fits = {} THEN 0
        ELSE CHOOSE i \in fits :
                \A j \in fits :
                    \/ Sum(bars[i]) > Sum(bars[j])
                    \/ (Sum(bars[i]) = Sum(bars[j]) /\ i <= j)

StrictFitBar(bars, cut, bar_length) == ScanBarsStrict(bars, cut, bar_length, 1)

\* the bar chosen for one cut (0: none, a new bar is opened)
FirstFitBar(bars, cut, bar_length) == ScanBars(bars, cut, bar_length, 1)

\* faulty variant: the break is missing, the cut is appended to every bar that
\* has room when the scan reaches it
PlaceCutNoBreak(bars, cut, bar_length) ==
    LET fits == {i \in 1..Len(bars) : bar_length - Sum(bars[i]) >= cut}
    IN  IF fits = {} THEN Append(bars, <<cut>>)
        ELSE [i \in 1..Len(bars) |->
                 IF i \in fits THEN Append(bars[i], cut) ELSE bars[i]]

\* one iteration of "for cut in cuts"
PlaceCut(bars, cut, bar_length) ==
    LET i == FirstFitBar(bars, cut, bar_length)
    IN  IF i = 0 THEN Append(bars, <<cut>>)
        ELSE [bars EXCEPT ![i] = Append(@, cut)]

RECURSIVE PackLoop(_, _, _)
PackLoop(cuts, bars, bar_length) ==
    IF cuts = <<>> THEN bars
    ELSE PackLoop(Tail(cuts), PlaceCut(bars, Head(cuts), bar_length), bar_length)

best_fit_decreasing(cuts, bar_length) ==
    PackLoop(sorted_reverse(cuts), <<>>, bar_length)

(* ---------------- optimise_cuts ---------------- *)
\* std_length is PyNone or PyInt(n); the returned triple
\* (len(bars), offcuts, bars) is a record; raised is the exception the
\* call ends with ("" when it returns normally)
optimise_cuts(cut_lengths, std_length) ==
    IF IsNone(std_length)
    THEN [bars_used |-> 1, offcuts |-> <<0>>, patterns |-> <<cut_lengths>>,
          raised |-> ""]
    ELSE LET bars == best_fit_decreasing(cut_lengths, std_length.val)
         IN  [bars_used |-> Len(bars),
              offcuts |-> [i \in 1..Len(bars) |-> std_length.val - Sum(bars[i])],
              patterns |-> bars,
              raised |-> ""]

(* ---------------- inputs ---------------- *)
NoDF == [kind |-> "None"]
DF(rows) == [kind |-> "df", rows |-> rows]

\* default_stock_length = st.sidebar.number_input(..., value=6000, ...)
default_stock_length == 6000

BomRow(d, l, q, par) == [description |-> d, length |-> l, qty |-> q, parent |-> par]

\* BOM rows: two spellings of a table material, a stock-list material, the
\* material with no standard bar and a variant of it, an unlisted material;
\* usable, negative and non-numeric lengths; a zero and a non-numeric
\* quantity; a non-text description; parents "", "A" and missing
BomRows ==
    {BomRow(PyStr("50x50x3 SHS"), PyInt(3000), PyInt(1), PyStr("")),
     BomRow(PyStr("50X50X3-SHS"), PyInt(5000), PyInt(1), PyStr("A")),
     BomRow(PyStr("50x50x3 SHS"), PyStr("abc"), PyInt(1), PyStr("")),
     BomRow(PyStr("100x50x3RHS"), PyInt(3000), PyInt(1), PyStr("")),
     BomRow(PyStr("200PFC"), PyInt(3000), PyInt(1), PyStr("")),
     BomRow(PyStr("200pfc/galv"), PyInt(3000), PyInt(1), PyStr("")),
     BomRow(PyStr("Flat Bar "), PyInt(3000), PyInt(1), PyStr("A")),
     BomRow(PyStr("Flat Bar "), PyInt(-1000), PyInt(1), PyStr("")),
     BomRow(PyNone, PyInt(3000), PyInt(0), PyNone),
     BomRow(PyStr("$12 bar"), PyInt(3000), PyStr("two"), PyStr(""))}
BOMs == UNION {[1..n -> BomRows] : n \in 1..MaxRows}

ProcureModes == {"Bulk (group by Description)", "By Parent (bundle per Parent)"}
Multipliers == {1, 2}
SidebarMaterials == {"flat bar", ""}
SidebarLengths == {" cut", "6500", "n/a"}
TypedLengths == {"4000"}

\* normalise, tabulated once over the description cells of the BOM rows
DescriptionCells ==
    LET cells == {row.description : row \in BomRows}
    IN  cells \cup {PyStr(str_strip(d.val)) : d \in {c \in cells : IsStr(c)}}
normalised == [d \in DescriptionCells |-> normalise(d)]

(* ---------------- process_group ---------------- *)
\* math.ceil(length * WASTE_FACTOR) for an integer length
waste_adjusted(length) == -((-(length * WASTE_FACTOR_X100)) \div 100)

\* the try block of one BOM row: float(row["length"]) and int(row["qty"])
\* succeed on numeric cells and raise on the text cells of the model;
\* [x] * qty is empty for qty <= 0
row_cuts(row) ==
    IF IsInt(row.length) /\ IsInt(row.qty)
    THEN [k \in 1..row.qty.val |-> waste_adjusted(row.length.val)]
    ELSE <<>>

RECURSIVE group_cuts(_)
group_cuts(group) ==
    IF group = <<>> THEN <<>> ELSE row_cuts(Head(group)) \o group_cuts(Tail(group))

\* std_length from overrides -> STANDARD_LENGTHS
resolve_std_length(desc_norm, ovr) ==
    IF desc_norm \in DOMAIN ovr
    THEN LET std_override == ovr[desc_norm]
         IN  IF IsStr(std_override) /\ std_override.val = "CUT" THEN PyNone
             ELSE IF IsNone(std_override) \/ py_str(std_override) = ""
                  THEN dict_get(STANDARD_LENGTHS, desc_norm)
             ELSE IF IsInt(std_override) THEN std_override
             ELSE IF ParsesAsInt(std_override.val)
                  THEN PyInt(ParseInt(std_override.val))
             ELSE dict_get(STANDARD_LENGTHS, desc_norm)
    ELSE dict_get(STANDARD_LENGTHS, desc_norm)

unknown_row(desc_display, cuts) ==
    ("Description" :> PyStr(desc_display)) @@
    ("Standard Bar Length (mm)" :> PyStr("UNKNOWN")) @@
    ("Total Cuts" :> PyInt(Len(cuts))) @@
    ("Bars Required" :> PyStr("UNKNOWN")) @@
    ("Avg Offcut (mm)" :> PyStr("UNKNOWN")) @@
    ("Cutting Patterns" :> PyStr("UNKNOWN")) @@
    ("_warning" :> PyStr("No standard length found for " \o desc_display
                         \o ". Set a stock length before processing."))

check_row(desc_display, cuts, bars_equivalent) ==
    ("Description" :> PyStr(desc_display)) @@
    ("Total Length (mm)" :> PyInt(Sum(cuts))) @@
    ("Approx. Bars Equivalent" :> bars_equivalent)

buy_row(desc_display, cuts, length) ==
    LET res == optimise_cuts(cuts, length)
    IN  ("Description" :> PyStr(desc_display)) @@
        ("Standard Bar Length (mm)" :>
            (IF IsNone(length) \/ length.val = 0
             THEN PyStr("CUT-TO-LENGTH") ELSE length)) @@
        ("Total Cuts" :> PyInt(Len(cuts))) @@
        ("Bars Required" :> PyInt(res.bars_used)) @@
        ("Avg Offcut (mm)" :>
            (IF res.offcuts # <<>>
             THEN PyRound(Sum(res.offcuts), Len(res.offcuts), 1)
             ELSE PyInt(0))) @@
        ("Cutting Patterns" :> PyStr(patterns_str(res.patterns)))

\* faulty variant: a material with no length falls back to the global default and
\* is packed against it instead of being marked UNKNOWN
process_material_defaulting(desc_norm, group, ovr) ==
    LET desc_display == str_strip(group[1].description.val)
        cuts == group_cuts(group)
        resolved == resolve_std_length(desc_norm, ovr)
        is200 == str_contains(desc_norm, "200PFC")
        length == IF is200 THEN PyNone
                  ELSE IF /\ IsNone(resolved) /\ ~InStockList(desc_norm)
                          /\ desc_norm \notin DOMAIN ovr
                       THEN PyInt(default_stock_length)
                  ELSE resolved
    IN  IF desc_norm = "" THEN [buy |-> <<>>, check |-> <<>>]
        ELSE IF InStockList(desc_norm) /\ IsNone(length)
             THEN [buy |-> <<>>,
                   check |-> <<check_row(desc_display, cuts,
                                   PyStr("UNKNOWN (no stock length set)"))>>]
        ELSE IF InStockList(desc_norm)
             THEN [buy |-> <<>>,
                   check |-> <<check_row(desc_display, cuts,
                       PyRound(Sum(cuts),
                               IF length.val = 0 THEN 1 ELSE length.val, 2))>>]
        ELSE [buy |-> <<buy_row(desc_display, cuts, length)>>, check |-> <<>>]

\* one iteration of "for desc_norm, group in grouped": the rows it appends
process_material(desc_norm, group, ovr) ==
    LET desc_display == str_strip(group[1].description.val)
        cuts == group_cuts(group)
        resolved == resolve_std_length(desc_norm, ovr)
        is200 == str_contains(desc_norm, "200PFC")
        length == IF is200 THEN PyNone ELSE resolved
    IN  IF desc_norm = "" THEN [buy |-> <<>>, check |-> <<>>]
        ELSE IF /\ IsNone(resolved) /\ ~is200
                /\ ~InStockList(desc_norm) /\ desc_norm \notin DOMAIN ovr
             THEN [buy |-> <<unknown_row(desc_display, cuts)>>, check |-> <<>>]
        ELSE IF InStockList(desc_norm) /\ IsNone(length)
             THEN [buy |-> <<>>,
                   check |-> <<check_row(desc_display, cuts,
                                   PyStr("UNKNOWN (no stock length set)"))>>]
        ELSE IF InStockList(desc_norm)
             THEN [buy |-> <<>>,
                   check |-> <<check_row(desc_display, cuts,
                       PyRound(Sum(cuts),
                               IF length.val = 0 THEN 1 ELSE length.val, 2))>>]
        ELSE [buy |-> <<buy_row(desc_display, cuts, length)>>, check |-> <<>>]

\* df.groupby("desc_clean"): the keys in sorted order, each with its rows
RECURSIVE sorted_keys(_)
sorted_keys(S) ==
    IF S = {} THEN <<>>
    ELSE LET m == CHOOSE k \in S : \A j \in S \ {k} : str_less(k, j)
         IN  <<m>> \o sorted_keys(S \ {m})

\* df["desc_clean"] = df["description"].apply(normalise)
with_desc_clean(df) ==
    [i \in 1..Len(df) |->
        [k \in DOMAIN df[i] \cup {"desc_clean"} |->
            IF k = "desc_clean" THEN normalised[df[i].description] ELSE df[i][k]]]

group_of(df, key) == SelectSeq(df, LAMBDA row : row.desc_clean = key)

RECURSIVE process_keys(_, _, _)
process_keys(keys, df, ovr) ==
    IF keys = <<>> THEN [buy |-> <<>>, check |-> <<>>]
    ELSE LET first == process_material(Head(keys), group_of(df, Head(keys)), ovr)
             rest == process_keys(Tail(keys), df, ovr)
         IN  [buy |-> first.buy \o rest.buy, check |-> first.check \o rest.check]

\* default_stock_length is accepted and never read
process_group(df_group, ovr, default_length) ==
    LET df == with_desc_clean(df_group)
    IN  process_keys(sorted_keys({df[i].desc_clean : i \in 1..Len(df)}), df, ovr)

(* ---------------- the sidebar: Add / Update material ---------------- *)
AddUpdateMaterial ==
    /\ pc = "ready"
    /\ \E new_material \in SidebarMaterials, new_material_len \in SidebarLengths :
          LET key == normalise(PyStr(new_material))
              value == IF str_upper(str_strip(new_material_len)) = "CUT" THEN PyNone
                       ELSE IF ParsesAsInt(new_material_len)
                            THEN PyInt(ParseInt(new_material_len))
                       ELSE PyInt(default_stock_length)
          IN  IF key # ""
              THEN STANDARD_LENGTHS' =
                       [k \in DOMAIN STANDARD_LENGTHS \cup {key} |->
                           IF k = key THEN value ELSE STANDARD_LENGTHS[k]]
              ELSE UNCHANGED STANDARD_LENGTHS
    /\ UNCHANGED <<uploaded_df, pc, df_proc, overrides, procure_mode,
                   buy_rows_all, check_rows_all, warnings, st_error>>
    /\ UNCHANGED packVars

(* ---------------- the upload tab ---------------- *)
UploadBOM ==
    /\ pc = "ready"
    /\ uploaded_df = NoDF
    /\ \E rows \in BOMs : uploaded_df' = DF(rows)
    /\ UNCHANGED <<STANDARD_LENGTHS, pc, df_proc, overrides, procure_mode,
                   buy_rows_all, check_rows_all, warnings, st_error>>
    /\ UNCHANGED packVars

(* ---------------- the "Process BOM" handler ---------------- *)
RECURSIVE unique(_, _)
unique(s, seen) ==
    IF s = <<>> THEN <<>>
    ELSE IF Head(s) \in seen THEN unique(Tail(s), seen)
    ELSE <<Head(s)>> \o unique(Tail(s), seen \cup {Head(s)})

\* the text and the checkbox each material's widgets start with
detected(mat) ==
    IF mat \in DOMAIN STANDARD_LENGTHS THEN STANDARD_LENGTHS[mat]
    ELSE PyStr("(no standard)")
default_text(mat) == IF IsNone(detected(mat)) THEN "" ELSE py_str(detected(mat))

\* what the user leaves in the widgets of one material: the box ticked, or
\* the box clear with the prefilled or a typed text
WidgetInputs(mat) ==
    {[cut_box |-> TRUE, user_val |-> default_text(mat)]}
    \cup {[cut_box |-> FALSE, user_val |-> t] : t \in {default_text(mat)} \cup TypedLengths}

HasOverride(w) == w.cut_box \/ ParsesAsInt(w.user_val)
override_of(w) ==
    IF w.cut_box THEN PyStr("CUT") ELSE PyInt(ParseInt(w.user_val))

build_overrides(materials, ui) ==
    [mat \in {m \in materials : HasOverride(ui[m])} |-> override_of(ui[mat])]

fillna(par) == IF IsStr(par) THEN par.val ELSE ""

\* rows of process_group with "Parent" set and "_warning" popped
label_rows(rows, label) ==
    [i \in 1..Len(rows) |->
        [k \in (DOMAIN rows[i] \cup {"Parent"}) \ {"_warning"} |->
            IF k = "Parent" THEN PyStr(label) ELSE rows[i][k]]]

collect_warnings(rows) ==
    LET warned == SelectSeq(rows, LAMBDA r : "_warning" \in DOMAIN r)
    IN  [i \in 1..Len(warned) |-> warned[i]["_warning"].val]

RECURSIVE by_parent(_, _, _)
by_parent(parents, df, ovr) ==
    IF parents = <<>> THEN [buy |-> <<>>, check |-> <<>>, warn |-> <<>>]
    ELSE LET parent == Head(parents)
             sub == SelectSeq(df, LAMBDA row : fillna(row.parent) = parent)
             res == process_group(sub, ovr, default_stock_length)
             label == IF parent # "" THEN parent ELSE "(No Parent)"
             rest == by_parent(Tail(parents), df, ovr)
         IN  [buy |-> label_rows(res.buy, label) \o rest.buy,
              check |-> label_rows(res.check, label) \o rest.check,
              warn |-> collect_warnings(res.buy) \o rest.warn]

bulk(df, ovr) ==
    LET res == process_group(df, ovr, default_stock_length)
    IN  [buy |-> label_rows(res.buy, "(Bulk)"),
         check |-> label_rows(res.check, "(Bulk)"),
         warn |-> collect_warnings(res.buy)]

ProcessBOM ==
    /\ pc = "ready"
    /\ pc' = "done"
    /\ IF uploaded_df = NoDF
       THEN /\ st_error' = "No BOM provided."
            /\ UNCHANGED <<df_proc, overrides, procure_mode, buy_rows_all,
                           check_rows_all, warnings>>
       ELSE LET df == uploaded_df.rows
            IN  IF \E i \in 1..Len(df) : ~IsInt(df[i].qty)
                THEN /\ st_error' = "Could not interpret Qty column as numeric integers."
                     /\ UNCHANGED <<df_proc, overrides, procure_mode, buy_rows_all,
                                    check_rows_all, warnings>>
                ELSE \E mode \in ProcureModes, multiplier \in Multipliers :
                       LET dfp == with_desc_clean(
                                      [i \in 1..Len(df) |->
                                         [df[i] EXCEPT !.qty = PyInt(@.val * multiplier)]])
                           materials == {dfp[i].desc_clean : i \in 1..Len(dfp)}
                       IN  \E ui \in [materials -> UNION {WidgetInputs(m) : m \in materials}] :
                             /\ \A m \in materials : ui[m] \in WidgetInputs(m)
                             /\ LET ovr == build_overrides(materials, ui)
                                    out == IF SubSeq(mode, 1, 9) = "By Parent"
                                           THEN by_parent(
                                                  unique([i \in 1..Len(dfp) |->
                                                            fillna(dfp[i].parent)], {}),
                                                  dfp, ovr)
                                           ELSE bulk(dfp, ovr)
                                IN  /\ df_proc' = dfp
                                    /\ overrides' = ovr
                                    /\ procure_mode' = mode
                                    /\ buy_rows_all' = out.buy
                                    /\ check_rows_all' = out.check
                                    /\ warnings' = out.warn
                                    /\ st_error' = ""
    /\ UNCHANGED <<STANDARD_LENGTHS, uploaded_df>>
    /\ UNCHANGED packVars

(* ---------------- the specifications ---------------- *)
NoResult == [bars_used |-> 0, offcuts |-> <<>>, patterns |-> <<>>, raised |-> ""]

InitApp ==
    /\ STANDARD_LENGTHS = STANDARD_LENGTHS_0
    /\ uploaded_df = NoDF
    /\ pc = "ready"
    /\ df_proc = <<>>
    /\ overrides = <<>>
    /\ procure_mode = ""
    /\ buy_rows_all = <<>>
    /\ check_rows_all = <<>>
    /\ warnings = <<>>
    /\ st_error = ""

\* the app: one run from the first page load to the processed tables
Init ==
    /\ InitApp
    /\ in_cuts = <<>>
    /\ in_length = PyNone
    /\ pack_pc = "idle"
    /\ pack_result = NoResult

Next == AddUpdateMaterial \/ UploadBOM \/ ProcessBOM

Spec == Init /\ [][Next]_vars

\* the packing alone, over every small cut list and bar length
CutLists == UNION {[1..n -> 1..MaxCut] : n \in 0..MaxCuts}
BarLengths == {PyNone} \cup {PyInt(n) : n \in 1..MaxBar}

InitPack ==
    /\ InitApp
    /\ in_cuts \in CutLists
    /\ in_length \in BarLengths
    /\ pack_pc = "call"
    /\ pack_result = NoResult

\* one call optimise_cuts(in_cuts, in_length)
Pack ==
    /\ pack_pc = "call"
    /\ pack_result' = optimise_cuts(in_cuts, in_length)
    /\ pack_pc' = "returned"
    /\ UNCHANGED <<in_cuts, in_length>>
    /\ UNCHANGED appVars

NextPack == Pack

SpecPack == InitPack /\ [][NextPack]_vars

(* ---------------- properties of the packing ---------------- *)
Returned == pack_pc = "returned"
Packed == Returned /\ IsInt(in_length)
Patterns == pack_result.patterns
AllPositive == \A k \in 1..Len(in_cuts) : in_cuts[k] > 0
AllFit == \A k \in 1..Len(in_cuts) : in_cuts[k] <= in_length.val
Count(s, v) == Cardinality({k \in 1..Len(s) : s[k] = v})

RECURSIVE Flatten(_)
Flatten(ss) == IF ss = <<>> THEN <<>> ELSE Head(ss) \o Flatten(Tail(ss))

NonIncreasing(s) == \A k \in 1..(Len(s) - 1) : s[k] >= s[k + 1]

\* C1: every bar returned for a non-null bar length holds cuts summing to
\* at most the bar length, and every offcut is >= 0.
C1_Capacity ==
    (Packed /\ AllPositive) =>
        \A i \in 1..Len(Patterns) :
            /\ Sum(Patterns[i]) <= in_length.val
            /\ pack_result.offcuts[i] >= 0

\* C2: with a non-null bar length and a cut strictly greater than it, the
\* packing ends with OversizeCutError and returns no packing result.
C2_OversizeDetection ==
    (Packed /\ ~AllFit) =>
        /\ pack_result.raised = "OversizeCutError"
        /\ pack_result.patterns = <<>>

\* C3: with a null bar length the packing returns one singleton pattern per
\* cut in input order, bars_used = number of cuts, and that many zero offcuts.
C3_NullPassthrough ==
    (Returned /\ IsNone(in_length)) =>
        /\ pack_result.bars_used = Len(in_cuts)
        /\ pack_result.offcuts = [k \in 1..Len(in_cuts) |-> 0]
        /\ pack_result.patterns = [k \in 1..Len(in_cuts) |-> <<in_cuts[k]>>]

\* C4: for a non-null bar length the cuts of all returned patterns are,
\* as a multiset, exactly the input cuts (so the sums agree), and bars_used
\* equals the number of patterns and the number of offcuts.
C4_Conservation ==
    Packed =>
        /\ \A v \in 1..(MaxCut + 1) :
              Count(Flatten(Patterns), v) = Count(in_cuts, v)
        /\ Len(Flatten(Patterns)) = Len(in_cuts)
        /\ Sum(Flatten(Patterns)) = Sum(in_cuts)
        /\ pack_result.bars_used = Len(Patterns)
        /\ pack_result.bars_used = Len(pack_result.offcuts)

\* a packing with a shared bar and a second bar
C4_Witness ==
    /\ Packed
    /\ Len(Patterns) >= 2
    /\ \E i \in 1..Len(Patterns) : Len(Patterns[i]) >= 2

\* the reference procedure of C9: cuts taken largest first (repeatedly
\* removing a maximum), each put into the earliest-created open bar whose
\* remaining room is >= the cut, a new bar opened at the end otherwise
RECURSIVE RefOrder(_)
RefOrder(s) ==
    IF s = <<>> THEN <<>>
    ELSE LET m == CHOOSE k \in 1..Len(s) :
                     /\ \A l \in 1..Len(s) : s[k] >= s[l]
                     /\ \A l \in 1..(k - 1) : s[l] < s[k]
         IN  <<s[m]>> \o RefOrder(SubSeq(s, 1, m - 1) \o SubSeq(s, m + 1, Len(s)))

RECURSIVE RefFirstFit(_, _, _)
RefFirstFit(cuts, open, bar_length) ==
    IF cuts = <<>> THEN [i \in 1..Len(open) |-> open[i].items]
    ELSE LET c == Head(cuts)
             ok == {i \in 1..Len(open) : open[i].room >= c}
         IN  IF ok = {}
             THEN RefFirstFit(Tail(cuts),
                      Append(open, [room |-> bar_length - c, items |-> <<c>>]),
                      bar_length)
             ELSE LET e == CHOOSE i \in ok : \A j \in ok : i <= j
                  IN  RefFirstFit(Tail(cuts),
                          [open EXCEPT ![e] = [room |-> @.room - c,
                                               items |-> Append(@.items, c)]],
                          bar_length)

\* C9: when every cut fits the bar length, the returned patterns are those
\* of the decreasing first-fit reference procedure; every pattern is
\* non-increasing and the first cuts of successive bars are non-increasing.
C9_DecreasingFirstFit ==
    (Packed /\ AllFit) =>
        /\ Patterns = RefFirstFit(RefOrder(in_cuts), <<>>, in_length.val)
        /\ \A i \in 1..Len(Patterns) : NonIncreasing(Patterns[i])
        /\ NonIncreasing([i \in 1..Len(Patterns) |-> Patterns[i][1]])

\* a packing where a later bar is tighter than an earlier one that the
\* last cut still fits (first fit and best fit part ways)
C9_Witness ==
    /\ Packed /\ AllFit
    /\ in_cuts = <<3, 1, 5, 3>>
    /\ in_length.val = 7
    /\ Patterns = <<(<<5, 1>>), (<<3, 3>>)>>

\* C10: for bars i < j in creation order, the final sum of bar i plus the
\* first cut of bar j exceeds the bar length; so no two bars can be merged
\* and at most one bar is filled to half the bar length or less.
C10_FirstFitQuality ==
    (Packed /\ AllPositive) =>
        /\ \A i, j \in 1..Len(Patterns) :
              i < j => /\ Sum(Patterns[i]) + Patterns[j][1] > in_length.val
                       /\ Sum(Patterns[i]) + Sum(Patterns[j]) > in_length.val
        /\ Cardinality({i \in 1..Len(Patterns) :
                           2 * Sum(Patterns[i]) <= in_length.val}) <= 1

\* three bars, the last one at most half full, an earlier one exactly full
C10_Witness ==
    /\ Packed /\ AllFit
    /\ Len(Patterns) >= 3
    /\ 2 * Sum(Patterns[Len(Patterns)]) <= in_length.val
    /\ \E i \in 1..Len(Patterns) :
          Len(Patterns[i]) >= 2 /\ Sum(Patterns[i]) = in_length.val

(* ---------------- properties of the processing ---------------- *)
Processed == pc = "done" /\ st_error = ""
BulkMode == procure_mode = "Bulk (group by Description)"
PyEq(a, b) == a.kind = b.kind /\ (a.kind = "None" \/ a.val = b.val)

\* the material keys of the processed BOM
Materials == {df_proc[i].desc_clean : i \in 1..Len(df_proc)} \ {""}
KeyOfRow(r) == normalised[r["Description"]]
BuyOf(m) == {i \in 1..Len(buy_rows_all) : KeyOfRow(buy_rows_all[i]) = m}
CheckOf(m) == {i \in 1..Len(check_rows_all) : KeyOfRow(check_rows_all[i]) = m}

\* the groups of material m handed to process_group: one in bulk mode, one
\* per parent holding the material otherwise; each by its "Parent" label
LabelOf(row) ==
    IF BulkMode THEN "(Bulk)"
    ELSE IF fillna(row.parent) # "" THEN fillna(row.parent) ELSE "(No Parent)"
GroupLabels(m) ==
    {LabelOf(df_proc[i]) : i \in {j \in 1..Len(df_proc) : df_proc[j].desc_clean = m}}
GroupRows(m, label) ==
    SelectSeq(df_proc, LAMBDA row : row.desc_clean = m /\ LabelOf(row) = label)
WarningText(label) ==
    "No standard length found for " \o label \o ". Set a stock length before processing."
WarningsOf(m) ==
    {i \in 1..Len(warnings) :
        \E j \in 1..Len(df_proc) :
            /\ df_proc[j].desc_clean = m
            /\ warnings[i] = WarningText(str_strip(df_proc[j].description.val))}

IsMarked(r, text) ==
    IsStr(r["Standard Bar Length (mm)"]) /\ r["Standard Bar Length (mm)"].val = text

\* the materials whose resolved policy is cut-to-length: override "CUT", or
\* no override and a table entry of None
CutToLength(m) ==
    IF m \in DOMAIN overrides
    THEN IsStr(overrides[m]) /\ overrides[m].val = "CUT"
    ELSE m \in DOMAIN STANDARD_LENGTHS /\ IsNone(STANDARD_LENGTHS[m])

\* C5: a material whose resolved policy is cut-to-length gets a BUY row
\* marked CUT-TO-LENGTH and no CHECK row, also when it is in the stock list.
C5_CutBeatsStockCheck ==
    Processed =>
        \A m \in Materials :
            CutToLength(m) =>
                /\ BuyOf(m) # {}
                /\ \A i \in BuyOf(m) : IsMarked(buy_rows_all[i], "CUT-TO-LENGTH")
                /\ CheckOf(m) = {}

\* the materials with no length at all: not in the stock list, no override,
\* no table entry (process_group never reads the global default, so no
\* default is usable for them)
Unresolved(m) ==
    /\ ~InStockList(m)
    /\ m \notin DOMAIN overrides
    /\ m \notin DOMAIN STANDARD_LENGTHS

IsPlaceholder(r, cuts) ==
    /\ IsMarked(r, "UNKNOWN")
    /\ PyEq(r["Bars Required"], PyStr("UNKNOWN"))
    /\ PyEq(r["Avg Offcut (mm)"], PyStr("UNKNOWN"))
    /\ PyEq(r["Cutting Patterns"], PyStr("UNKNOWN"))
    /\ PyEq(r["Total Cuts"], PyInt(Len(cuts)))
    /\ "_warning" \notin DOMAIN r

ResolvedLength(m) ==
    IF m \in DOMAIN overrides
    THEN (IF IsInt(overrides[m]) THEN overrides[m] ELSE PyNone)
    ELSE IF m \in DOMAIN STANDARD_LENGTHS THEN STANDARD_LENGTHS[m]
    ELSE PyInt(default_stock_length)

\* C7: the length a Buy-routed material is packed against is its override
\* when present (a number, or CUT for cut-to-length), else its table entry,
\* else the global default.
C7_ResolutionOrder ==
    Processed =>
        \A m \in Materials :
            ~InStockList(m) =>
                /\ BuyOf(m) # {}
                /\ \A i \in BuyOf(m) :
                      LET shown == buy_rows_all[i]["Standard Bar Length (mm)"]
                          want == ResolvedLength(m)
                      IN  IF IsNone(want) THEN IsMarked(buy_rows_all[i], "CUT-TO-LENGTH")
                          ELSE PyEq(shown, want)

\* the cuts of the rows whose length and quantity are positive numbers
WellFormed(row) ==
    /\ IsInt(row.length) /\ row.length.val > 0
    /\ IsInt(row.qty) /\ row.qty.val > 0
ValidCuts(group) == group_cuts(SelectSeq(group, WellFormed))

\* C8: a row whose length or quantity is non-numeric or not positive adds
\* no cut: Total Cuts and Total Length count the well-formed rows only.
C8_MalformedRowsDropped ==
    Processed =>
        /\ \A i \in 1..Len(buy_rows_all) :
              LET r == buy_rows_all[i]
              IN  r["Total Cuts"].val =
                      Len(ValidCuts(GroupRows(KeyOfRow(r), r["Parent"].val)))
        /\ \A i \in 1..Len(check_rows_all) :
              LET r == check_rows_all[i]
              IN  r["Total Length (mm)"].val =
                      Sum(ValidCuts(GroupRows(KeyOfRow(r), r["Parent"].val)))

====
